---- MODULE Spec2Model ----
(***************************************************************************)
(* Model of the three standalone scripts of llm-azure-deploy:              *)
(*   src/src/inference.py    init() / run(raw_data)  (Azure ML scoring)     *)
(*   src/huggingface.py      validate_config() / upload_model()            *)
(*   src/register_model.py   get_ml_client() / register_model()            *)
(* One process runs one script; `script` says which.  Calls into external  *)
(* libraries (transformers, huggingface_hub, azure.ai.ml, os) are inputs   *)
(* of the actions: each either returns or raises one of the exception      *)
(* classes listed for it.                                                  *)
(***************************************************************************)
EXTENDS Integers, Sequences, FiniteSets, TLC

VARIABLES
    script,        \* which script this process runs
    tokenizer,     \* inference.py global `tokenizer`: Unbound or Loaded
    model,         \* inference.py global `model`: Unbound or Loaded
    initStatus,    \* history: outcome of the most recent init() call
    initEverOk,    \* history: some init() call of this process has returned normally
    last,          \* the most recent init()/run() call: its inputs, the calls it made, its outcome
    TOKEN,         \* huggingface.py configuration
    USERNAME,      \* huggingface.py configuration
    LOCAL_FOLDER,  \* huggingface.py: does os.path.exists(LOCAL_FOLDER) hold
    upload,        \* the most recent upload_model() run
    LOCAL_MODEL_PATH,  \* register_model.py: does os.path.exists(LOCAL_MODEL_PATH) hold
    registration   \* the most recent register_model() run

vars == <<script, tokenizer, model, initStatus, initEverOk, last,
          TOKEN, USERNAME, LOCAL_FOLDER, upload, LOCAL_MODEL_PATH, registration>>

inferenceVars == <<tokenizer, model, initStatus, initEverOk, last>>
uploaderVars  == <<TOKEN, USERNAME, LOCAL_FOLDER, upload>>
registrarVars == <<LOCAL_MODEL_PATH, registration>>

-----------------------------------------------------------------------------
(* Bounds of the model *)

\* largest number of entries os.listdir(model_dir) returns
MaxEntries == 2
\* largest number of tokens the tokenizer returns for a prompt
MaxInputTokens == 2
\* latest position at which the generator would emit end-of-sequence by itself
MaxEosAfter == 3
\* largest number of optional sampling fields one request carries
MaxOptionalFields == 2

-----------------------------------------------------------------------------
(* Python values *)

\* a global name that has not been assigned
Unbound == "<unbound>"
\* a global holding the object from_pretrained returned
Loaded == "<loaded>"
\* Python's None
PyNone == "<None>"
\* the empty dict
EmptyDict == [k \in {} |-> 0]

\* dict.get(key, default)
Get(d, key, default) == IF key \in DOMAIN d THEN d[key] ELSE default

\* the classes an exception of class cls is an instance of
Bases(cls) ==
    CASE cls = "JSONDecodeError"    -> {"JSONDecodeError", "ValueError", "Exception"}
      [] cls = "ValueError"         -> {"ValueError", "Exception"}
      [] cls = "FileNotFoundError"  -> {"FileNotFoundError", "OSError", "Exception"}
      [] cls = "NotADirectoryError" -> {"NotADirectoryError", "OSError", "Exception"}
      [] cls = "HfHubHTTPError"     -> {"HfHubHTTPError", "OSError", "Exception"}
      [] cls = "HttpResponseError"  -> {"HttpResponseError", "Exception"}
      [] OTHER                      -> {cls, "Exception"}

\* isinstance(exc, cls), the test an `except cls` clause makes
IsInstance(exc, cls) == cls \in Bases(exc)

-----------------------------------------------------------------------------
(* inference.py: init() *)

\* what os.listdir can return: each entry has a name and is a directory or a file
Entries ==
    { [name |-> "snapshot",    isdir |-> TRUE],
      [name |-> "weights",     isdir |-> TRUE],
      [name |-> "config.json", isdir |-> FALSE] }

\* the listings of at most MaxEntries distinct entries, in any order
Listings ==
    { l \in UNION { [1..n -> Entries] : n \in 0..MaxEntries } :
        \A i, j \in DOMAIN l : i # j => l[i].name # l[j].name }

\* the values os.getenv("AZUREML_MODEL_DIR") can return
ModelDirs == { PyNone, "/var/azureml/model" }

\* what is at model_dir on disk
PathKinds == { "missing", "file", "dir" }

\* outcomes of AutoTokenizer.from_pretrained / AutoModelForCausalLM.from_pretrained
LoadOutcomes == { "ok", "OSError" }

\* os.path.join(a, b)
PathJoin(a, b) == a \o "/" \o b

\* path resolution that descends into the first directory entry, whatever else is listed
ResolveFirstDirectory(model_dir, contents) ==
    IF \E i \in DOMAIN contents : contents[i].isdir
    THEN PathJoin(model_dir,
                  contents[CHOOSE i \in DOMAIN contents :
                               /\ contents[i].isdir
                               /\ \A j \in DOMAIN contents : contents[j].isdir => i <= j].name)
    ELSE model_dir

\* lines 35-38: one level is flattened only when the single entry is a directory
ResolveModelPath(model_dir, contents) ==
    IF Len(contents) = 1 /\ contents[1].isdir
    THEN PathJoin(model_dir, contents[1].name)
    ELSE model_dir

\* a call of an external library function, as recorded in last.calls
LoadCall(fn, path) == [fn |-> fn, path |-> path]

\* the result of an init() call: the globals after it, the exception that left
\* it ("none" when it returned), the path it resolved and the loads it made
InitResult(tok, mod, raised, path, calls) ==
    [tokenizer |-> tok, model |-> mod, raised |-> raised,
     model_path |-> path, calls |-> calls]

\* init() with the model bound before the load result is known
InitCallBindsEarly(tok, mod, model_dir, kind, contents, tokLoad, modelLoad) ==
    IF model_dir = PyNone \/ kind = "missing"
    THEN InitResult(tok, mod, "ValueError", PyNone, <<>>)
    ELSE IF kind = "file"
    THEN InitResult(tok, mod, "NotADirectoryError", PyNone, <<>>)
    ELSE LET model_path == ResolveModelPath(model_dir, contents)
             tcall == LoadCall("AutoTokenizer.from_pretrained", model_path)
             mcall == LoadCall("AutoModelForCausalLM.from_pretrained", model_path)
         IN  IF tokLoad # "ok"
             THEN InitResult(tok, mod, tokLoad, model_path, <<tcall>>)
             ELSE InitResult(Loaded, Loaded,
                             IF modelLoad # "ok" THEN modelLoad ELSE "none",
                             model_path, <<tcall, mcall>>)

\* lines 21-64.  Nothing is caught for good: the except clause logs and re-raises.
InitCall(tok, mod, model_dir, kind, contents, tokLoad, modelLoad) ==
    IF model_dir = PyNone \/ kind = "missing"
    THEN \* line 29 false: line 40 raises ValueError
         InitResult(tok, mod, "ValueError", PyNone, <<>>)
    ELSE IF kind = "file"
    THEN \* line 30: os.listdir of a path that is not a directory
         InitResult(tok, mod, "NotADirectoryError", PyNone, <<>>)
    ELSE LET model_path == ResolveModelPath(model_dir, contents)
             tcall == LoadCall("AutoTokenizer.from_pretrained", model_path)
             mcall == LoadCall("AutoModelForCausalLM.from_pretrained", model_path)
         IN  IF tokLoad # "ok"
             THEN \* line 45 raises: neither global is assigned
                  InitResult(tok, mod, tokLoad, model_path, <<tcall>>)
             ELSE IF modelLoad # "ok"
             THEN \* line 52 raises: tokenizer is already assigned, model is not
                  InitResult(Loaded, mod, modelLoad, model_path, <<tcall, mcall>>)
             ELSE InitResult(Loaded, Loaded, "none", model_path, <<tcall, mcall>>)

\* the record kept of a call
Call(op, args, r, response, changed) ==
    [op |-> op, args |-> args, raised |-> r.raised, calls |-> r.calls,
     model_path |-> r.model_path, response |-> response, globals_changed |-> changed]

NoCall ==
    [op |-> "none", args |-> EmptyDict, raised |-> "none", calls |-> <<>>,
     model_path |-> PyNone, response |-> EmptyDict, globals_changed |-> FALSE]

init ==
    /\ script = "inference"
    /\ \E model_dir \in ModelDirs :
       \E kind \in (IF model_dir = PyNone THEN { "missing" } ELSE PathKinds) :
       \E contents \in (IF kind = "dir" THEN Listings ELSE { <<>> }) :
       \E tokLoad \in (IF kind = "dir" THEN LoadOutcomes ELSE { "ok" }) :
       \E modelLoad \in (IF kind = "dir" /\ tokLoad = "ok" THEN LoadOutcomes ELSE { "ok" }) :
        LET r == InitCall(tokenizer, model, model_dir, kind, contents, tokLoad, modelLoad)
        IN  /\ tokenizer' = r.tokenizer
            /\ model' = r.model
            /\ initStatus' = IF r.raised = "none" THEN "ok" ELSE "failed"
            /\ initEverOk' = (initEverOk \/ r.raised = "none")
            /\ last' = Call("init",
                            [model_dir |-> model_dir, path_kind |-> kind, contents |-> contents,
                             tokenizer_load |-> tokLoad, model_load |-> modelLoad],
                            r, EmptyDict,
                            <<r.tokenizer, r.model>> # <<tokenizer, model>>)
    /\ UNCHANGED <<script, uploaderVars, registrarVars>>

-----------------------------------------------------------------------------
(* inference.py: run(raw_data) *)

\* defaults of lines 95-99; temperature and top_p are counted in tenths
DefaultMaxNewTokens == 512
DefaultTemperatureTenths == 7
DefaultTopPTenths == 9
DefaultTopK == 50
DefaultDoSample == TRUE

\* Python values of the prompt field, written as their repr
PyStrings == { "''", "'Hi'" }
PromptValues == PyStrings \cup { "7" }

\* a prompt test that only rejects None
TruthyUnlessNone(v) == v # "None"

\* line 91: bool(v) of a value written as its repr
Truthy(v) == v \notin { "''", "0", "0.0", "None", "False", "[]", "{}" }

\* the JSON objects requests are drawn from: each field present or absent, the
\* sampling values include ones outside the ranges the generator accepts
Field(key, values) == { EmptyDict } \cup { key :> v : v \in values }

SamplingKeys == { "max_new_tokens", "temperature", "top_p", "top_k", "do_sample" }

RequestObjects ==
    { d \in { p @@ m @@ t @@ tp @@ tk @@ ds :
                p  \in Field("prompt", PromptValues),
                m  \in Field("max_new_tokens", { 2, -1 }),
                t  \in Field("temperature", { -10 }),
                tp \in Field("top_p", { 15 }),
                tk \in Field("top_k", { 0 }),
                ds \in Field("do_sample", { FALSE }) } :
        Cardinality(DOMAIN d \cap SamplingKeys) <= MaxOptionalFields }

\* raw_data: kind says what json.loads makes of it
Raw(kind, text, data) == [kind |-> kind, text |-> text, data |-> data]

RawData ==
    { Raw("nonstring", "None", EmptyDict) }
    \cup { Raw("malformed", t, EmptyDict) : t \in { "", "{'prompt': " } }
    \cup { Raw("nonobject", t, EmptyDict) : t \in { "[]", "3" } }
    \cup { Raw("object", "{...}", d) : d \in RequestObjects }

\* json.loads(raw_data): the value, or the exception it raises
json_loads(raw) ==
    CASE raw.kind = "nonstring" ->
           [exc |-> "TypeError",
            msg |-> "the JSON object must be str, bytes or bytearray, not NoneType"]
      [] raw.kind = "malformed" ->
           [exc |-> "JSONDecodeError",
            msg |-> IF raw.text = "" THEN "Expecting value: line 1 column 1 (char 0)"
                    ELSE "Expecting property name enclosed in double quotes: line 1 column 2 (char 1)"]
      [] OTHER -> [exc |-> "none", msg |-> ""]

\* what the tokenizer, the generator and the decoder do in one call: each returns
\* or raises; the tokenizer returns input_length tokens; the generator stops at
\* its own end-of-sequence after eos_after tokens or at max_new_tokens
External(tok, gen, dec, n, eos) ==
    [tok |-> tok, gen |-> gen, dec |-> dec, input_length |-> n, eos_after |-> eos]

Failures == { "RuntimeError", "ValueError" }

\* the outcomes that differ in what run can see of them
ExternalOutcomes ==
    { External(e, "ok", "ok", 1, 0) : e \in Failures }
    \cup { External("ok", e, "ok", 1, 0) : e \in Failures }
    \cup { External("ok", "ok", e, 1, 0) : e \in Failures }
    \cup { External("ok", "ok", "ok", n, eos) : n \in 1..MaxInputTokens, eos \in 0..MaxEosAfter }

\* the outcome used for a call that never reaches the tokenizer
NoExternal == External("ok", "ok", "ok", 1, 0)

\* does run(raw) get as far as calling the tokenizer
ReachesTokenizer(tok, raw) ==
    /\ tok # Unbound
    /\ raw.kind = "object"
    /\ Get(raw.data, "prompt", "''") \in PyStrings \ { "''" }

\* keyword arguments with max_new_tokens raised to at least 1
GenerationKwargsClamped(data) ==
    [max_new_tokens |-> LET m == Get(data, "max_new_tokens", DefaultMaxNewTokens)
                        IN  IF m < 1 THEN 1 ELSE m,
     temperature    |-> Get(data, "temperature", DefaultTemperatureTenths),
     top_p          |-> Get(data, "top_p", DefaultTopPTenths),
     top_k          |-> Get(data, "top_k", DefaultTopK),
     do_sample      |-> Get(data, "do_sample", DefaultDoSample)]

\* lines 95-99 and 109-117: the keyword arguments handed to model.generate
GenerationKwargs(data) ==
    [max_new_tokens |-> Get(data, "max_new_tokens", DefaultMaxNewTokens),
     temperature    |-> Get(data, "temperature", DefaultTemperatureTenths),
     top_p          |-> Get(data, "top_p", DefaultTopPTenths),
     top_k          |-> Get(data, "top_k", DefaultTopK),
     do_sample      |-> Get(data, "do_sample", DefaultDoSample)]

\* model.generate: the number of tokens appended to the input
NewTokens(max_new_tokens, eos_after) ==
    IF eos_after < max_new_tokens THEN eos_after ELSE max_new_tokens

\* a generated_length that counts the prompt tokens too
GeneratedLengthTotal(output_length, input_length) == output_length

\* line 128
GeneratedLength(output_length, input_length) == output_length - input_length

\* the result of a run() call
RunResult(tok, mod, raised, calls, response) ==
    [tokenizer |-> tok, model |-> mod, raised |-> raised, model_path |-> PyNone,
     calls |-> calls, response |-> response]

\* an except chain that reports every exception the same way
RunExceptGenericOnly(tok, mod, exc, msg, calls) ==
    IF IsInstance(exc, "Exception")
    THEN RunResult(tok, mod, "none", calls, [error |-> <<msg>>])
    ELSE RunResult(tok, mod, exc, calls, EmptyDict)

\* an except chain that only expects JSON and value errors
RunExceptValueErrors(tok, mod, exc, msg, calls) ==
    IF IsInstance(exc, "JSONDecodeError")
    THEN RunResult(tok, mod, "none", calls, [error |-> <<"Invalid JSON format: ", msg>>])
    ELSE IF IsInstance(exc, "ValueError")
    THEN RunResult(tok, mod, "none", calls, [error |-> <<msg>>])
    ELSE RunResult(tok, mod, exc, calls, EmptyDict)

\* lines 131-136: the except clauses of run, tried in order
RunExcept(tok, mod, exc, msg, calls) ==
    IF IsInstance(exc, "JSONDecodeError")
    THEN RunResult(tok, mod, "none", calls, [error |-> <<"Invalid JSON format: ", msg>>])
    ELSE IF IsInstance(exc, "Exception")
    THEN RunResult(tok, mod, "none", calls, [error |-> <<msg>>])
    ELSE RunResult(tok, mod, exc, calls, EmptyDict)

\* the external calls of run as recorded in last.calls; tokens is the length of
\* what the call returned (0 when it raised)
TokenizerCall(prompt, tokens) == [fn |-> "tokenizer", prompt |-> prompt, tokens |-> tokens]
GenerateCall(kwargs, tokens) == [fn |-> "model.generate", kwargs |-> kwargs, tokens |-> tokens]
DecodeCall == [fn |-> "tokenizer.decode"]

\* lines 86-129, with the except clauses of lines 131-136
RunCall(tok, mod, raw, ext) ==
    LET parsed == json_loads(raw) IN
    IF parsed.exc # "none"
    THEN RunExcept(tok, mod, parsed.exc, parsed.msg, <<>>)
    ELSE IF raw.kind = "nonobject"
    THEN \* line 89: a list, a number, ... has no get
         RunExcept(tok, mod, "AttributeError", "object has no attribute 'get'", <<>>)
    ELSE
    LET data == raw.data
        prompt == Get(data, "prompt", "''")
    IN
    IF ~Truthy(prompt)
    THEN RunResult(tok, mod, "none", <<>>, [error |-> <<"No prompt provided">>])
    ELSE IF prompt \notin PyStrings
    THEN \* line 101: len(prompt) of a number
         RunExcept(tok, mod, "TypeError", "object of type 'int' has no len()", <<>>)
    ELSE IF tok = Unbound
    THEN RunExcept(tok, mod, "NameError", "name 'tokenizer' is not defined", <<>>)
    ELSE
    LET tcall == TokenizerCall(prompt, ext.input_length) IN
    IF ext.tok # "ok"
    THEN RunExcept(tok, mod, ext.tok, "tokenizer failed", <<TokenizerCall(prompt, 0)>>)
    ELSE IF mod = Unbound
    THEN \* line 104: the tokenizer has run when model.device is looked up
         RunExcept(tok, mod, "NameError", "name 'model' is not defined", <<tcall>>)
    ELSE
    LET kwargs == GenerationKwargs(data)
        input_length == ext.input_length
    IN
    IF ext.gen # "ok"
    THEN RunExcept(tok, mod, ext.gen, "generate failed", <<tcall, GenerateCall(kwargs, 0)>>)
    ELSE IF kwargs.max_new_tokens < 1
    THEN \* the generator rejects a budget that is not positive
         RunExcept(tok, mod, "ValueError", "max_new_tokens must be greater than 0",
                   <<tcall, GenerateCall(kwargs, 0)>>)
    ELSE
    LET output_length == input_length + NewTokens(kwargs.max_new_tokens, ext.eos_after)
        gcall == GenerateCall(kwargs, output_length)
        dcall == DecodeCall
    IN
    IF ext.dec # "ok"
    THEN RunExcept(tok, mod, ext.dec, "decode failed", <<tcall, gcall, dcall>>)
    ELSE RunResult(tok, mod, "none", <<tcall, gcall, dcall>>,
                   [result           |-> <<prompt, output_length - input_length>>,
                    prompt_length    |-> input_length,
                    generated_length |-> GeneratedLength(output_length, input_length)])

run ==
    /\ script = "inference"
    /\ \E raw \in RawData :
       \E ext \in (IF ReachesTokenizer(tokenizer, raw) THEN ExternalOutcomes ELSE { NoExternal }) :
        LET r == RunCall(tokenizer, model, raw, ext)
        IN  /\ tokenizer' = r.tokenizer
            /\ model' = r.model
            /\ last' = Call("run", raw, r, r.response,
                            <<r.tokenizer, r.model>> # <<tokenizer, model>>)
    /\ UNCHANGED <<script, initStatus, initEverOk, uploaderVars, registrarVars>>

-----------------------------------------------------------------------------
(* huggingface.py: validate_config() / upload_model() *)

TokenPlaceholder == "hf_your_write_token_here"
UsernamePlaceholder == "your_hf_username"

Tokens == { PyNone, "", TokenPlaceholder, "hf_live_write_token" }
Usernames == { PyNone, "", UsernamePlaceholder, "alice" }

\* `not v` of a string or None
Falsy(v) == v \in { PyNone, "" }

\* outcomes of create_repo and of api.upload_folder: they return, or raise the
\* hub's HTTP error, or raise a ValueError (the hub client's validation error
\* is one; so is the JSON decode error of a reply that is not JSON)
CreateRepoOutcomes == { "ok", "HfHubHTTPError", "ValueError" }
UploadFolderOutcomes == { "ok", "HfHubHTTPError", "ValueError" }

\* validate_config that does not look at the local folder
validate_config_no_folder(token, username, folderExists) ==
    (IF token = TokenPlaceholder \/ Falsy(token)
     THEN <<"TOKEN (HuggingFace write token)">> ELSE <<>>)
    \o (IF username = UsernamePlaceholder \/ Falsy(username)
        THEN <<"USERNAME (HuggingFace username)">> ELSE <<>>)

\* lines 22-29: the list `missing`; line 31 raises ValueError when it is not empty
validate_config(token, username, folderExists) ==
    (IF token = TokenPlaceholder \/ Falsy(token)
     THEN <<"TOKEN (HuggingFace write token)">> ELSE <<>>)
    \o (IF username = UsernamePlaceholder \/ Falsy(username)
        THEN <<"USERNAME (HuggingFace username)">> ELSE <<>>)
    \o (IF ~folderExists
        THEN <<"LOCAL_FOLDER (path to model files)">> ELSE <<>>)

\* a finished run of a script function: what it returned, the message it
\* printed or logged, the calls it made, and the call whose exception ended it
ScriptRun(returned, message, calls, failed_call, exc) ==
    [ran |-> TRUE, returned |-> returned, message |-> message, calls |-> calls,
     failed_call |-> failed_call, exc |-> exc]

NotRun ==
    [ran |-> FALSE, returned |-> FALSE, message |-> "", calls |-> <<>>,
     failed_call |-> "none", exc |-> "none"]

\* lines 64-70: the except clauses of upload_model, tried in order
UploadExcept(exc, calls, failed_call) ==
    IF IsInstance(exc, "ValueError")
    THEN ScriptRun(FALSE, "Configuration Error", calls, failed_call, exc)
    ELSE IF IsInstance(exc, "Exception")
    THEN ScriptRun(FALSE, "Error occurred during upload", calls, failed_call, exc)
    ELSE ScriptRun(FALSE, "uncaught", calls, failed_call, exc)

\* lines 36-70
UploadModelCall(token, username, folderExists, createOut, uploadOut) ==
    IF validate_config(token, username, folderExists) # <<>>
    THEN UploadExcept("ValueError", <<>>, "validate_config")
    ELSE IF createOut # "ok"
    THEN UploadExcept(createOut, <<"create_repo">>, "create_repo")
    ELSE IF uploadOut # "ok"
    THEN UploadExcept(uploadOut, <<"create_repo", "upload_folder">>, "upload_folder")
    ELSE ScriptRun(TRUE, "Upload Successful!", <<"create_repo", "upload_folder">>,
                   "none", "none")

upload_model ==
    /\ script = "huggingface"
    /\ \E createOut \in CreateRepoOutcomes, uploadOut \in UploadFolderOutcomes :
        upload' = UploadModelCall(TOKEN, USERNAME, LOCAL_FOLDER, createOut, uploadOut)
    /\ UNCHANGED <<script, inferenceVars, TOKEN, USERNAME, LOCAL_FOLDER, registrarVars>>

-----------------------------------------------------------------------------
(* register_model.py: get_ml_client() / register_model() *)

\* outcomes of MLClient.from_config and of ml_client.models.create_or_update
FromConfigOutcomes == { "ok", "Exception" }
CreateOrUpdateOutcomes == { "ok", "HttpResponseError", "ValueError", "FileNotFoundError" }

\* lines 28-38: whatever from_config raises is raised again as a ValueError
get_ml_client(fromConfigOut) ==
    IF fromConfigOut = "ok" THEN "none"
    ELSE IF IsInstance(fromConfigOut, "Exception") THEN "ValueError"
    ELSE fromConfigOut

\* lines 76-84: the except clauses of register_model, tried in order
RegisterExcept(exc, calls, failed_call) ==
    IF IsInstance(exc, "FileNotFoundError")
    THEN ScriptRun(FALSE, "File Error", calls, failed_call, exc)
    ELSE IF IsInstance(exc, "ValueError")
    THEN ScriptRun(FALSE, "Configuration Error", calls, failed_call, exc)
    ELSE IF IsInstance(exc, "Exception")
    THEN ScriptRun(FALSE, "Error during model registration", calls, failed_call, exc)
    ELSE ScriptRun(FALSE, "uncaught", calls, failed_call, exc)

\* register_model that connects to the workspace before it looks at the path
RegisterModelCallClientFirst(pathExists, fromConfigOut, createOut) ==
    IF get_ml_client(fromConfigOut) # "none"
    THEN RegisterExcept(get_ml_client(fromConfigOut), <<"get_ml_client">>, "get_ml_client")
    ELSE IF ~pathExists
    THEN RegisterExcept("FileNotFoundError", <<"get_ml_client">>, "os.path.exists")
    ELSE IF createOut # "ok"
    THEN RegisterExcept(createOut, <<"get_ml_client", "models.create_or_update">>,
                        "models.create_or_update")
    ELSE ScriptRun(TRUE, "Model registered successfully!",
                   <<"get_ml_client", "models.create_or_update">>, "none", "none")

\* lines 42-84
RegisterModelCall(pathExists, fromConfigOut, createOut) ==
    IF ~pathExists
    THEN RegisterExcept("FileNotFoundError", <<>>, "os.path.exists")
    ELSE IF get_ml_client(fromConfigOut) # "none"
    THEN RegisterExcept(get_ml_client(fromConfigOut), <<"get_ml_client">>, "get_ml_client")
    ELSE IF createOut # "ok"
    THEN RegisterExcept(createOut, <<"get_ml_client", "models.create_or_update">>,
                        "models.create_or_update")
    ELSE ScriptRun(TRUE, "Model registered successfully!",
                   <<"get_ml_client", "models.create_or_update">>, "none", "none")

register_model ==
    /\ script = "register_model"
    /\ \E fromConfigOut \in FromConfigOutcomes, createOut \in CreateOrUpdateOutcomes :
        registration' = RegisterModelCall(LOCAL_MODEL_PATH, fromConfigOut, createOut)
    /\ UNCHANGED <<script, inferenceVars, uploaderVars, LOCAL_MODEL_PATH>>

-----------------------------------------------------------------------------
(* The process *)

Scripts == { "inference", "huggingface", "register_model" }

\* A process starts one script.  inference.py defines neither global at import;
\* the two other scripts read their configuration once; the configuration of a
\* script that is not running is the one written in the source.
Init ==
    /\ script \in Scripts
    /\ tokenizer = Unbound
    /\ model = Unbound
    /\ initStatus = "never"
    /\ initEverOk = FALSE
    /\ last = NoCall
    /\ TOKEN \in (IF script = "huggingface" THEN Tokens ELSE { TokenPlaceholder })
    /\ USERNAME \in (IF script = "huggingface" THEN Usernames ELSE { UsernamePlaceholder })
    /\ LOCAL_FOLDER \in (IF script = "huggingface" THEN BOOLEAN ELSE { FALSE })
    /\ upload = NotRun
    /\ LOCAL_MODEL_PATH \in (IF script = "register_model" THEN BOOLEAN ELSE { FALSE })
    /\ registration = NotRun

Next == init \/ run \/ upload_model \/ register_model

Spec == Init /\ [][Next]_vars

-----------------------------------------------------------------------------
(* Properties *)

\* the two shapes of a run response
IsSuccess(resp) == DOMAIN resp = { "result", "prompt_length", "generated_length" }
IsError(resp) == DOMAIN resp = { "error" }

Ready == tokenizer # Unbound /\ model # Unbound

\* the calls of the most recent init()/run() to the external function fn
CallsTo(fn) == { i \in DOMAIN last.calls : last.calls[i].fn = fn }

\* the most recent call was run on a JSON object whose prompt is missing or ""
RunWithoutPrompt ==
    /\ last.op = "run"
    /\ last.args.kind = "object"
    /\ ("prompt" \notin DOMAIN last.args.data \/ last.args.data["prompt"] = "''")

\* C1: every run call returns a response object, a success object or an object
\* with an error field, and raises nothing, whatever raw_data is, whatever the
\* handler state is and whichever of tokenizer, generator and decoder fails.
C1_RunAlwaysReturnsResponse ==
    last.op = "run" =>
        /\ last.raised = "none"
        /\ IsSuccess(last.response) \/ IsError(last.response)

\* a run in the Ready state whose generate call raised, answered with an error
C1_Witness ==
    /\ last.op = "run"
    /\ Ready
    /\ \E i \in CallsTo("model.generate") : last.calls[i].tokens = 0
    /\ CallsTo("tokenizer.decode") = {}
    /\ IsError(last.response)

\* C2: a request whose prompt is missing or "" is answered with exactly
\* {"error": "No prompt provided"}; neither the tokenizer nor model.generate is
\* called, and the model/tokenizer globals are unchanged.
C2_NoPromptNoModelCall ==
    RunWithoutPrompt =>
        /\ last.raised = "none"
        /\ last.response = [error |-> <<"No prompt provided">>]
        /\ last.calls = <<>>
        /\ ~last.globals_changed

\* a request with prompt "" and a sampling field, received in the Ready state
C2_Witness ==
    /\ RunWithoutPrompt
    /\ Ready
    /\ "prompt" \in DOMAIN last.args.data
    /\ "max_new_tokens" \in DOMAIN last.args.data
    /\ IsError(last.response)

\* the uploader's configuration fails validation
BadUploadConfig ==
    \/ TOKEN \in { PyNone, "", "hf_your_write_token_here" }
    \/ USERNAME \in { PyNone, "", "your_hf_username" }
    \/ ~LOCAL_FOLDER

\* C3: with TOKEN or USERNAME unset or the placeholder, or LOCAL_FOLDER absent,
\* upload_model returns False and calls neither create_repo nor upload_folder.
C3_BadConfigNoHubCall ==
    (upload.ran /\ BadUploadConfig) =>
        /\ upload.returned = FALSE
        /\ upload.calls = <<>>

\* a run in which only the local folder is wrong
C3_Witness ==
    /\ upload.ran
    /\ TOKEN = "hf_live_write_token"
    /\ USERNAME = "alice"
    /\ ~LOCAL_FOLDER
    /\ upload.returned = FALSE

\* C4: when LOCAL_MODEL_PATH does not exist, register_model returns False and
\* calls neither get_ml_client nor models.create_or_update.
C4_MissingPathNoClient ==
    (registration.ran /\ ~LOCAL_MODEL_PATH) =>
        /\ registration.returned = FALSE
        /\ registration.calls = <<>>

C4_Witness ==
    /\ registration.ran
    /\ ~LOCAL_MODEL_PATH
    /\ registration.message = "File Error"

\* C5: in the uploader and the registrar a failure reported as Configuration
\* Error (or as File Error) was detected locally, with no remote operation
\* (create_repo, upload_folder, models.create_or_update) attempted in that
\* run, and a failure of a remote operation is reported under the separate
\* transport/API message.
C5_ConfigErrorsAreLocal ==
    /\ (upload.ran /\ upload.message = "Configuration Error") => upload.calls = <<>>
    /\ (registration.ran /\ registration.message \in { "Configuration Error", "File Error" })
           => \A i \in DOMAIN registration.calls :
                  registration.calls[i] # "models.create_or_update"
    /\ upload.failed_call \in { "create_repo", "upload_folder" }
           => upload.message = "Error occurred during upload"
    /\ registration.failed_call = "models.create_or_update"
           => registration.message = "Error during model registration"

\* the most recent call was an init that got as far as resolving the model path
InitResolved == last.op = "init" /\ last.args.path_kind = "dir"

\* that init handed path to every from_pretrained call it made, and made one
LoadedFrom(path) ==
    /\ last.model_path = path
    /\ last.calls # <<>>
    /\ \A i \in DOMAIN last.calls : last.calls[i].path = path

\* the directory entries of the listing the most recent init saw
Subdirectories ==
    { i \in DOMAIN last.args.contents : last.args.contents[i].isdir }

\* C6 as stated: a model directory that contains exactly one subdirectory is
\* loaded from that subdirectory; one with zero entries or with multiple
\* entries is loaded from the directory root.
C6_OneSubdirectoryAsStated ==
    InitResolved =>
        /\ Cardinality(Subdirectories) = 1 =>
               \E i \in Subdirectories :
                   LoadedFrom(last.args.model_dir \o "/" \o last.args.contents[i].name)
        /\ Len(last.args.contents) # 1 => LoadedFrom(last.args.model_dir)

\* C6 amended: a model directory whose only entry is a subdirectory is loaded
\* from that subdirectory; one with zero entries or with multiple entries,
\* even when exactly one of them is a subdirectory, is loaded from the root.
C6_SingleEntrySubdirectory ==
    InitResolved =>
        /\ (Len(last.args.contents) = 1 /\ last.args.contents[1].isdir) =>
               LoadedFrom(last.args.model_dir \o "/" \o last.args.contents[1].name)
        /\ Len(last.args.contents) # 1 => LoadedFrom(last.args.model_dir)

\* an init that succeeded from the root of a directory holding one
\* subdirectory beside a file
C6_Witness ==
    /\ InitResolved
    /\ Len(last.args.contents) = 2
    /\ Cardinality(Subdirectories) = 1
    /\ LoadedFrom(last.args.model_dir)
    /\ last.raised = "none"

\* the most recent init met one of the failures the claim lists
InitStepFailed ==
    /\ last.op = "init"
    /\ \/ last.args.model_dir = PyNone
       \/ last.args.path_kind = "missing"
       \/ last.args.tokenizer_load # "ok"
       \/ last.args.model_load # "ok"

\* C7 as stated: a failing init raises, and after a failed init the model and
\* the tokenizer are not both available, so that no run returns a success
\* response until a later init succeeds.
C7_FailedInitNeverReadyAsStated ==
    /\ InitStepFailed => (last.raised # "none" /\ initStatus = "failed")
    /\ initStatus = "failed" => ~Ready
    /\ (last.op = "run" /\ initStatus = "failed") => ~IsSuccess(last.response)

\* C7 amended: a failing init raises and does not make the holder Ready: as
\* long as no init of the process has succeeded, the model and the tokenizer
\* are not both available and no run returns a success response.  (A failed
\* init after a successful one leaves the earlier model bound.)
C7_FailedInitNeverMakesReady ==
    /\ InitStepFailed => (last.raised # "none" /\ initStatus = "failed")
    /\ ~initEverOk => ~Ready
    /\ (last.op = "run" /\ ~initEverOk) => ~IsSuccess(last.response)

\* a run with a prompt after an init whose model load failed: the tokenizer is
\* bound and is called, the model is not, and the answer is an error
C7_Witness ==
    /\ last.op = "run"
    /\ initStatus = "failed"
    /\ ~initEverOk
    /\ tokenizer = Loaded
    /\ model = Unbound
    /\ CallsTo("tokenizer") # {}
    /\ IsError(last.response)

\* C8: a request body that is not parseable JSON is answered with an error
\* object whose message is "Invalid JSON format:" followed by the decoder's
\* message; run raises nothing and calls neither tokenizer nor generator.
C8_MalformedJsonError ==
    (last.op = "run" /\ last.args.kind = "malformed") =>
        /\ last.raised = "none"
        /\ IsError(last.response)
        /\ Len(last.response.error) = 2
        /\ last.response.error[1] = "Invalid JSON format: "
        /\ last.response.error[2] \in
               { "Expecting value: line 1 column 1 (char 0)",
                 "Expecting property name enclosed in double quotes: line 1 column 2 (char 1)" }
        /\ last.calls = <<>>

C8_Witness ==
    /\ last.op = "run"
    /\ last.args.kind = "malformed"
    /\ last.args.text # ""
    /\ Ready
    /\ IsError(last.response)

\* the value the claim expects for sampling control key of request data
ExpectedControl(data, key) ==
    IF key \in DOMAIN data THEN data[key]
    ELSE CASE key = "max_new_tokens" -> 512
           [] key = "temperature"    -> 7
           [] key = "top_p"          -> 9
           [] key = "top_k"          -> 50
           [] key = "do_sample"      -> TRUE

\* C9: each sampling control handed to model.generate is the request's own
\* value, unvalidated and unclamped, when the request has the field, and the
\* default (512, 0.7, 0.9, 50, true) when it has not.
C9_SamplingControlsPassThrough ==
    last.op = "run" =>
        \A i \in CallsTo("model.generate") :
            \A key \in { "max_new_tokens", "temperature", "top_p", "top_k", "do_sample" } :
                last.calls[i].kwargs[key] = ExpectedControl(last.args.data, key)

\* generate was called with a max_new_tokens and a temperature outside the
\* generator's range, and with the defaults of the other controls
C9_Witness ==
    /\ last.op = "run"
    /\ \E i \in CallsTo("model.generate") :
           /\ last.calls[i].kwargs.max_new_tokens = -1
           /\ last.calls[i].kwargs.temperature = -10
           /\ last.calls[i].kwargs.top_k = 50
           /\ last.calls[i].kwargs.do_sample = TRUE

\* C10: in a success response prompt_length is the number of input tokens and
\* generated_length the number of output tokens minus the number of input
\* tokens; the generator appends at most max_new_tokens tokens, so
\* generated_length is at most the max_new_tokens in effect.
C10_GeneratedLength ==
    (last.op = "run" /\ IsSuccess(last.response)) =>
        \A t \in CallsTo("tokenizer"), g \in CallsTo("model.generate") :
            /\ last.response.prompt_length = last.calls[t].tokens
            /\ last.response.generated_length = last.calls[g].tokens - last.calls[t].tokens
            /\ last.response.generated_length <= last.calls[g].kwargs.max_new_tokens

\* a success whose generation was stopped by the request's max_new_tokens
C10_Witness ==
    /\ last.op = "run"
    /\ IsSuccess(last.response)
    /\ "max_new_tokens" \in DOMAIN last.args.data
    /\ last.response.generated_length = last.args.data["max_new_tokens"]
    /\ last.response.prompt_length = MaxInputTokens

====
